---- MODULE Spec2Model ----
(***************************************************************************)
(* kytan: a point-to-point VPN tunnel (src/src/network.rs).                *)
(*                                                                         *)
(* One process runs either connect() (client) or serve() (server).  Each   *)
(* is a single-threaded loop over two readiness sources, TUN and SOCK.     *)
(* The model follows the loops handler by handler: one action per loop     *)
(* step (interrupt check and prune, poll, one SOCK event, one TUN event),  *)
(* with the datagrams and packets as byte sequences and the bincode and    *)
(* snappy conversions computed on them.  A panic (unwrap on None/Err, an   *)
(* index out of range, a failed assert_eq!) ends the process: pc becomes   *)
(* "panicked" and no action is enabled for it any more.                    *)
(*                                                                         *)
(* I/O calls are taken to succeed.  How many bytes one send_to or write    *)
(* call takes is the variable accept: the whole buffer in Spec (what a UDP *)
(* socket and a TUN device do), a few bytes at a time in SpecPartial.      *)
(***************************************************************************)
EXTENDS Integers, Sequences, FiniteSets, TLC

VARIABLES
    role,           \* "server" (serve) or "client" (connect): fixed per process
    pc,             \* position of the process in its function
    events,         \* the part of the current poll batch not handled yet
    INTERRUPTED,    \* the process-wide flag set by the signal handler
    available_ids,  \* serve: the free pool, a Vec<Id>
    client_info,    \* serve: the session table, id -> [token, addr, ts]
    session,        \* connect: the (id, token) returned by initiate
    now,            \* wall-clock seconds read by the session table's timer
    nreq,           \* number of Requests the server has handled (model cap)
    accept,         \* the most bytes one send_to or write call takes
    tun_dev,        \* create_tun_attempt: the id being tried, the ids that fail
    ev,             \* the step just taken and its input
    tun_out,        \* the TUN writes of the step just taken, in order
    sock_out        \* the datagrams sent by the step just taken, in order

vars == <<role, pc, events, INTERRUPTED, available_ids, client_info, session,
          now, nreq, accept, tun_dev, ev, tun_out, sock_out>>

-----------------------------------------------------------------------------
(* Bounds of the model *)

MaxRequests == 2        \* Requests handled in one behaviour
MaxTime == 120          \* the clock stops advancing here
MaxPrune == 2           \* entries a single prune may remove (its order is enumerated)

(* Program constants *)

TTL == 60               \* TransientHashMap::new(60)
FirstId == 2            \* (2..254): first id of the pool
EndId == 254            \* (2..254): exclusive end of the pool
DstOffset == 19         \* data[19]
BufSize == 1600         \* [0u8; 1600]
LastTunId == 255        \* attempt: 255 => panic!
TagRequest == 0         \* enum Message, variant index of Request
TagResponse == 1        \* variant index of Response
TagData == 2            \* variant index of Data

TUN == "TUN"
SOCK == "SOCK"

-----------------------------------------------------------------------------
(* Byte sequences *)

RECURSIVE LE(_, _)
\* n as k little-endian bytes (bincode's fixed-width integers)
LE(n, k) == IF k = 0 THEN <<>> ELSE <<n % 256>> \o LE(n \div 256, k - 1)

RECURSIVE FromLE(_)
FromLE(b) == IF b = <<>> THEN 0 ELSE b[1] + 256 * FromLE(Tail(b))

Request == [type |-> "Request", id |-> 0, token |-> 0, data |-> <<>>]
Response(i, t) == [type |-> "Response", id |-> i, token |-> t, data |-> <<>>]
Data(i, t, d) == [type |-> "Data", id |-> i, token |-> t, data |-> d]

\* bincode::serialize(&msg, Infinite): u32 variant index, then the fields in
\* declared order; Vec<u8> as a u64 length and the bytes.
encode(msg) ==
    CASE msg.type = "Request"  -> LE(TagRequest, 4)
      [] msg.type = "Response" -> LE(TagResponse, 4) \o <<msg.id>> \o LE(msg.token, 8)
      [] msg.type = "Data"     -> LE(TagData, 4) \o <<msg.id>> \o LE(msg.token, 8)
                                    \o LE(Len(msg.data), 8) \o msg.data

DecodeErr == [ok |-> FALSE, msg |-> Request]
DecodeOk(m) == [ok |-> TRUE, msg |-> m]

\* bincode::deserialize(&buf[0..len]): Err on an unknown variant index or when
\* the bytes end before the message does; bytes after the message are ignored.
decode(b) ==
    IF Len(b) < 4 THEN DecodeErr
    ELSE LET tag == FromLE(SubSeq(b, 1, 4)) IN
         CASE tag = TagRequest -> DecodeOk(Request)
           [] tag = TagResponse ->
                IF Len(b) < 13 THEN DecodeErr
                ELSE DecodeOk(Response(b[5], FromLE(SubSeq(b, 6, 13))))
           [] tag = TagData ->
                IF Len(b) < 21 THEN DecodeErr
                ELSE LET n == FromLE(SubSeq(b, 14, 21)) IN
                     IF Len(b) < 21 + n THEN DecodeErr
                     ELSE DecodeOk(Data(b[5], FromLE(SubSeq(b, 6, 13)),
                                        SubSeq(b, 22, 21 + n)))
           [] OTHER -> DecodeErr

\* snap::Encoder::compress_vec on a packet of at most 60 bytes: the varint
\* of the uncompressed length, then one literal element (tag (len-1)<<2).
compress_vec(p) ==
    IF p = <<>> THEN <<0>> ELSE <<Len(p), (Len(p) - 1) * 4>> \o p

DecompressErr == [ok |-> FALSE, data |-> <<>>]

\* snap::Decoder::decompress_vec: Err unless the stream holds exactly the
\* announced number of bytes.
decompress_vec(c) ==
    IF c = <<0>> THEN [ok |-> TRUE, data |-> <<>>]
    ELSE IF Len(c) >= 3 /\ c[1] = Len(c) - 2 /\ c[2] = (c[1] - 1) * 4
         THEN [ok |-> TRUE, data |-> SubSeq(c, 3, Len(c))]
         ELSE DecompressErr

-----------------------------------------------------------------------------
(* Inputs the environment offers *)

Addrs == {"a1", "a2"}           \* peer UDP addresses seen by the server
ServerAddr == "srv"             \* remote_addr of the client
ClientPeers == {ServerAddr, "other"}
Tokens == {1, 258}              \* values rng.gen::<Token>() returns in the model
PeerIds == {253, 7}             \* ids carried by received Data and by TUN packets
PktLens == {19, 20, 21}         \* lengths of the packets TUN delivers

\* An IPv4 packet of the given length whose byte at offset 19 is d.
MkPacket(len, d) == [i \in 1..len |-> IF i = DstOffset + 1 THEN d ELSE 69]

Packets == {MkPacket(l, d) : l \in PktLens, d \in PeerIds}
\* the packets the client's TUN delivers: also one for the server, 10.10.10.1
ConnectPackets == Packets \cup {MkPacket(20, 1)}
GoodPayload == compress_vec(MkPacket(20, 1))
BadPayload == <<5>>             \* announces 5 bytes and holds none
Garbage == {<<9, 0, 0, 0>>, <<2, 0, 0>>}   \* unknown variant, truncated message

DataMsgs ==
    {Data(253, 1, GoodPayload), Data(253, 1, BadPayload),
     Data(253, 0, GoodPayload), Data(7, 1, GoodPayload)}

\* what the server sends to client 253 for a packet read from its TUN
FromServer == {Data(253, t, compress_vec(MkPacket(21, 253))) : t \in Tokens}

\* what recv_from may return on the server: (datagram, source address)
ServeInputs ==
    ({encode(Request)} \X Addrs)
      \cup ({encode(m) : m \in DataMsgs} \X Addrs)
      \cup (({encode(Response(253, 1))} \cup Garbage) \X {"a1"})

\* what recv_from may return on the client
ConnectInputs ==
    ({encode(Response(253, t)) : t \in Tokens} \X ClientPeers)
      \cup (({encode(m) : m \in DataMsgs \cup FromServer} \cup {encode(Request)}
                \cup Garbage) \X {ServerAddr})

AcceptSizes == {3, BufSize}     \* a call takes 3 bytes at a time, or everything
\* the sets of device ids whose creation fails
TunFailSets == {0..(k - 1) : k \in {0, 1, 2, 254, 255}} \cup {{1}, {0, 2}}

Batches == {<<SOCK>>, <<TUN>>, <<SOCK, TUN>>, <<TUN, SOCK>>}
TickSteps == {59, 60}

\* The orders in which a HashMap may yield the keys S.
Perms(S) ==
    {f \in [1..Cardinality(S) -> S] : \A i, j \in 1..Cardinality(S) : f[i] = f[j] => i = j}

SeqToSet(s) == {s[i] : i \in 1..Len(s)}

-----------------------------------------------------------------------------
(* TransientHashMap<Id, (Token, SocketAddr)> (crate transient_hashmap), as     *)
(* section 4.4 of the specification describes it: a map with one timestamp  *)
(* per key, set by insert, not refreshed by get, and read by prune.         *)

TransientInsert(m, k, v, t) ==
    [x \in DOMAIN m \cup {k} |->
        IF x = k THEN [token |-> v[1], addr |-> v[2], ts |-> t] ELSE m[x]]

\* mutant: get prolongs the lifetime of the key it finds
TransientGetRefresh(m, k) ==
    [map |-> [x \in DOMAIN m |-> IF x = k THEN [m[x] EXCEPT !.ts = now] ELSE m[x]],
     found |-> k \in DOMAIN m,
     value |-> IF k \in DOMAIN m THEN <<m[k].token, m[k].addr>> ELSE <<0, "-">>]

\* get(&k): the map after the call (unchanged) and the value found
TransientGet(m, k) ==
    [map |-> m, found |-> k \in DOMAIN m,
     value |-> IF k \in DOMAIN m THEN <<m[k].token, m[k].addr>> ELSE <<0, "-">>]

TransientExpired(m, t) == {k \in DOMAIN m : t - m[k].ts >= TTL}

TransientPruned(m, t) == [k \in DOMAIN m \ TransientExpired(m, t) |-> m[k]]

-----------------------------------------------------------------------------
(* Steps common to both loops *)

Alive == pc \notin {"exited", "panicked"}

NoOutput == tun_out' = <<>> /\ sock_out' = <<>>

Step(kind) == [kind |-> kind, dgram |-> <<>>, from |-> "-", pkt |-> <<>>]
SockStep(dgram, addr) == [kind |-> "sock", dgram |-> dgram, from |-> addr, pkt |-> <<>>]
TunStep(pkt) == [kind |-> "tun", dgram |-> <<>>, from |-> "-", pkt |-> pkt]

\* the handler returns: the for loop moves to the next event of the batch
Continue ==
    /\ events' = Tail(events)
    /\ pc' = IF Tail(events) = <<>> THEN "top" ELSE "events"

\* unwrap() on None/Err, index out of range, assert_eq! failure
Panic == pc' = "panicked" /\ events' = events

Min(a, b) == IF a < b THEN a ELSE b

RECURSIVE Chunks(_, _)
\* the pieces taken by the calls of a loop that advances by what each call took
Chunks(bytes, c) ==
    IF bytes = <<>> THEN <<>>
    ELSE <<SubSeq(bytes, 1, Min(c, Len(bytes)))>>
           \o Chunks(SubSeq(bytes, Min(c, Len(bytes)) + 1, Len(bytes)), c)

\* the write loop `while sent_len < data_len { sent_len += tun.write(..) }`:
\* each call writes one frame holding the bytes it took
TunWriteAll(bytes) == Chunks(bytes, accept)

\* mutant: the slice given to send_to stops one byte short of the message,
\* and the last byte goes out on its own
SendAllOffByOne(bytes, to) ==
    <<[to |-> to, bytes |-> SubSeq(bytes, 1, Len(bytes) - 1)],
      [to |-> to, bytes |-> <<bytes[Len(bytes)]>>]>>

\* the send loop `while sent_len < data_len { sent_len += send_to(&m[sent_len..]) }`:
\* each call sends one datagram holding the bytes it took
SendAll(bytes, to) ==
    [i \in 1..Len(Chunks(bytes, accept)) |->
        [to |-> to, bytes |-> Chunks(bytes, accept)[i]]]

\* a single send_to(&m, addr): one datagram holding the bytes the call took
SendOnce(bytes, to) ==
    <<[to |-> to, bytes |-> SubSeq(bytes, 1, Min(accept, Len(bytes)))]>>

-----------------------------------------------------------------------------
(* serve() *)

\* mutant: the pool built from the inclusive range 2..=254
InitAvailableIdsInclusive == [i \in 1..(EndId - FirstId + 1) |-> FirstId + i - 1]

InitAvailableIds == [i \in 1..(EndId - FirstId) |-> FirstId + i - 1]

\* mutant: the loop head goes to poll without the prune of line 239
ServeTopSkipPrune ==
    /\ role = "server" /\ pc = "top"
    /\ ev' = Step("top")
    /\ NoOutput
    /\ UNCHANGED <<role, accept, tun_dev, events, INTERRUPTED, session, now, nreq,
                   available_ids, client_info>>
    /\ pc' = IF INTERRUPTED THEN "exited" ELSE "poll"

\* mutant: the pruned ids are dropped instead of appended to the pool
ServeTopDropPruned ==
    /\ role = "server" /\ pc = "top"
    /\ ev' = Step("top")
    /\ NoOutput
    /\ UNCHANGED <<role, accept, tun_dev, events, INTERRUPTED, session, now, nreq, available_ids>>
    /\ IF INTERRUPTED
       THEN pc' = "exited" /\ UNCHANGED client_info
       ELSE /\ pc' = "poll"
            /\ client_info' = TransientPruned(client_info, now)

\* loop head: INTERRUPTED check, then available_ids.append(&mut client_info.prune())
ServeTop ==
    /\ role = "server" /\ pc = "top"
    /\ ev' = Step("top")
    /\ NoOutput
    /\ UNCHANGED <<role, accept, tun_dev, events, INTERRUPTED, session, now, nreq>>
    /\ IF INTERRUPTED
       THEN pc' = "exited" /\ UNCHANGED <<available_ids, client_info>>
       ELSE /\ pc' = "poll"
            /\ \E pruned \in Perms(TransientExpired(client_info, now)) :
                 available_ids' = available_ids \o pruned
            /\ client_info' = TransientPruned(client_info, now)

ServePoll ==
    /\ role = "server" /\ pc = "poll"
    /\ \E batch \in Batches : events' = batch
    /\ pc' = "events"
    /\ ev' = Step("poll")
    /\ NoOutput
    /\ UNCHANGED <<role, accept, tun_dev, INTERRUPTED, available_ids, client_info, session, now, nreq>>

\* mutant: the id is read with last() and stays in the pool
ServeRequestPeek(addr) ==
    IF available_ids = <<>>
    THEN /\ Panic /\ NoOutput
         /\ UNCHANGED <<available_ids, client_info, nreq>>
    ELSE \E client_token \in Tokens :
         LET client_id == available_ids[Len(available_ids)] IN
         /\ available_ids' = available_ids
         /\ client_info' = TransientInsert(client_info, client_id,
                                           <<client_token, addr>>, now)
         /\ sock_out' = SendAll(encode(Response(client_id, client_token)), addr)
         /\ tun_out' = <<>>
         /\ nreq' = nreq + 1
         /\ Continue

\* mutant: the id is taken from the front of the pool (remove(0))
ServeRequestFront(addr) ==
    IF available_ids = <<>>
    THEN /\ Panic /\ NoOutput
         /\ UNCHANGED <<available_ids, client_info, nreq>>
    ELSE \E client_token \in Tokens :
         LET client_id == available_ids[1] IN
         /\ available_ids' = Tail(available_ids)
         /\ client_info' = TransientInsert(client_info, client_id,
                                           <<client_token, addr>>, now)
         /\ sock_out' = SendAll(encode(Response(client_id, client_token)), addr)
         /\ tun_out' = <<>>
         /\ nreq' = nreq + 1
         /\ Continue

ServeRequest(addr) ==
    IF available_ids = <<>>
    THEN /\ Panic /\ NoOutput          \* available_ids.pop().unwrap()
         /\ UNCHANGED <<available_ids, client_info, nreq>>
    ELSE \E client_token \in Tokens :
         LET client_id == available_ids[Len(available_ids)] IN
         /\ available_ids' = SubSeq(available_ids, 1, Len(available_ids) - 1)
         /\ client_info' = TransientInsert(client_info, client_id,
                                           <<client_token, addr>>, now)
         /\ sock_out' = SendAll(encode(Response(client_id, client_token)), addr)
         /\ tun_out' = <<>>
         /\ nreq' = nreq + 1
         /\ Continue

\* mutant: the token comparison is left out
ServeDataNoGate(id, token, data) ==
    LET got == TransientGet(client_info, id) IN
    /\ client_info' = got.map
    /\ UNCHANGED <<available_ids, nreq>>
    /\ sock_out' = <<>>
    /\ IF ~got.found
       THEN tun_out' = <<>> /\ Continue
       ELSE LET d == decompress_vec(data) IN
            IF ~d.ok
            THEN tun_out' = <<>> /\ Panic
            ELSE tun_out' = TunWriteAll(d.data) /\ Continue

\* mutant: a Data with the right token re-inserts the session under the
\* datagram's source address (roaming)
ServeDataRoam(id, token, data) ==
    LET got == TransientGet(client_info, id) IN
    /\ UNCHANGED <<available_ids, nreq>>
    /\ sock_out' = <<>>
    /\ IF ~got.found
       THEN tun_out' = <<>> /\ Continue /\ client_info' = got.map
       ELSE IF got.value[1] # token
       THEN tun_out' = <<>> /\ Continue /\ client_info' = got.map
       ELSE LET d == decompress_vec(data) IN
            /\ client_info' = TransientInsert(got.map, id, <<token, ev'.from>>, now)
            /\ IF ~d.ok
               THEN tun_out' = <<>> /\ Panic
               ELSE tun_out' = TunWriteAll(d.data) /\ Continue

ServeData(id, token, data) ==
    LET got == TransientGet(client_info, id) IN
    /\ client_info' = got.map
    /\ UNCHANGED <<available_ids, nreq>>
    /\ sock_out' = <<>>
    /\ IF ~got.found
       THEN tun_out' = <<>> /\ Continue            \* warn: unknown id
       ELSE IF got.value[1] # token
       THEN tun_out' = <<>> /\ Continue            \* warn: mismatched token
       ELSE LET d == decompress_vec(data) IN
            IF ~d.ok
            THEN tun_out' = <<>> /\ Panic          \* decompress_vec(..).unwrap()
            ELSE tun_out' = TunWriteAll(d.data) /\ Continue

ServeSock ==
    /\ role = "server" /\ pc = "events" /\ Head(events) = SOCK
    /\ \E in \in ServeInputs :
         LET dgram == in[1]
             addr == in[2]
             r == decode(dgram) IN
         /\ r.ok /\ r.msg.type = "Request" => nreq < MaxRequests
         /\ ev' = SockStep(dgram, addr)
         /\ IF ~r.ok
            THEN /\ Panic /\ NoOutput              \* decode(..).unwrap()
                 /\ UNCHANGED <<available_ids, client_info, nreq>>
            ELSE CASE r.msg.type = "Request"  -> ServeRequest(addr)
                   [] r.msg.type = "Response" ->
                        /\ Continue /\ NoOutput
                        /\ UNCHANGED <<available_ids, client_info, nreq>>
                   [] r.msg.type = "Data" ->
                        ServeData(r.msg.id, r.msg.token, r.msg.data)
    /\ UNCHANGED <<role, accept, tun_dev, INTERRUPTED, session, now>>

\* mutant: the destination id is read one byte early (data[18])
ServeTunPacketOffByOne(pkt) ==
    IF Len(pkt) < DstOffset + 1
    THEN Panic /\ NoOutput /\ UNCHANGED client_info
    ELSE LET client_id == pkt[DstOffset]
             got == TransientGet(client_info, client_id) IN
         /\ client_info' = got.map
         /\ tun_out' = <<>>
         /\ Continue
         /\ IF ~got.found
            THEN sock_out' = <<>>
            ELSE sock_out' = SendOnce(encode(Data(client_id, got.value[1],
                                                  compress_vec(pkt))),
                                      got.value[2])

ServeTunPacket(pkt) ==
    IF Len(pkt) < DstOffset + 1
    THEN Panic /\ NoOutput /\ UNCHANGED client_info      \* data[19] out of range
    ELSE LET client_id == pkt[DstOffset + 1]
             got == TransientGet(client_info, client_id) IN
         /\ client_info' = got.map
         /\ tun_out' = <<>>
         /\ Continue
         /\ IF ~got.found
            THEN sock_out' = <<>>                        \* warn: unknown client
            ELSE sock_out' = SendOnce(encode(Data(client_id, got.value[1],
                                                  compress_vec(pkt))),
                                      got.value[2])

ServeTun ==
    /\ role = "server" /\ pc = "events" /\ Head(events) = TUN
    /\ \E pkt \in Packets :
         /\ ev' = TunStep(pkt)
         /\ ServeTunPacket(pkt)
    /\ UNCHANGED <<role, accept, tun_dev, INTERRUPTED, available_ids, session, now, nreq>>

-----------------------------------------------------------------------------
(* connect() *)

NoSession == [id |-> 0, token |-> 0]

\* create_tun_attempt() returned the device of id 0 at the first attempt
TunCreated == [id |-> 0, fail |-> {}]

RECURSIVE InitiateSendLoop(_, _)
\* the loop of initiate(): `while remaining_len > 0 { sent_bytes =
\* send_to(&encoded_req_msg, addr); remaining_len -= sent_bytes }`.  Every call
\* is given the whole message again; the subtraction on usize overflows when
\* a call takes more than what remains.
InitiateSendLoop(msg, remaining) ==
    IF remaining = 0 THEN [sent |-> <<>>, overflow |-> FALSE]
    ELSE LET n == Min(accept, Len(msg))
             d == [to |-> ServerAddr, bytes |-> SubSeq(msg, 1, n)] IN
         IF n > remaining THEN [sent |-> <<d>>, overflow |-> TRUE]
         ELSE LET rest == InitiateSendLoop(msg, remaining - n) IN
              [sent |-> <<d>> \o rest.sent, overflow |-> rest.overflow]

\* initiate(): encode Request and send it to the server.  On the overflow a
\* debug build panics; a release build wraps and goes on sending ("flooding").
InitiateSend ==
    /\ role = "client" /\ pc = "start"
    /\ LET r == InitiateSendLoop(encode(Request), Len(encode(Request))) IN
       /\ sock_out' = r.sent
       /\ IF r.overflow THEN pc' \in {"panicked", "flooding"} ELSE pc' = "wait"
    /\ tun_out' = <<>>
    /\ ev' = Step("initiate_send")
    /\ UNCHANGED <<role, accept, tun_dev, events, INTERRUPTED, available_ids, client_info, session,
                   now, nreq>>

\* mutant: the source address of the reply is not compared with the server's
InitiateReplyAnyAddr(dgram, addr) ==
    LET r == decode(dgram) IN
    IF ~r.ok THEN [ok |-> FALSE, session |-> NoSession]
    ELSE IF r.msg.type = "Response"
         THEN [ok |-> TRUE, session |-> [id |-> r.msg.id, token |-> r.msg.token]]
         ELSE [ok |-> FALSE, session |-> NoSession]

\* the outcome of initiate() and of the unwrap() on it, for the datagram received
InitiateReply(dgram, addr) ==
    LET r == decode(dgram) IN
    IF addr # ServerAddr THEN [ok |-> FALSE, session |-> NoSession]   \* assert_eq!
    ELSE IF ~r.ok THEN [ok |-> FALSE, session |-> NoSession]          \* try!(decode)
    ELSE IF r.msg.type = "Response"
         THEN [ok |-> TRUE, session |-> [id |-> r.msg.id, token |-> r.msg.token]]
         ELSE [ok |-> FALSE, session |-> NoSession]                   \* Err(Invalid message)

\* initiate(): the blocking recv_from, then the rest of the set-up of connect()
InitiateRecv ==
    /\ role = "client" /\ pc = "wait"
    /\ \E in \in ConnectInputs :
         LET dgram == in[1]
             addr == in[2]
             res == InitiateReply(dgram, addr) IN
         /\ ev' = [kind |-> "initiate_recv", dgram |-> dgram, from |-> addr,
                   pkt |-> <<>>]
         /\ session' = res.session
         /\ pc' = IF res.ok THEN "top" ELSE "panicked"
    /\ NoOutput
    /\ UNCHANGED <<role, accept, tun_dev, events, INTERRUPTED, available_ids, client_info, now, nreq>>

\* mutant: the loop head does not read INTERRUPTED
ConnectTopNoCheck ==
    /\ role = "client" /\ pc = "top"
    /\ pc' = "poll"
    /\ ev' = Step("top")
    /\ NoOutput
    /\ UNCHANGED <<role, accept, tun_dev, events, INTERRUPTED, available_ids,
                   client_info, session, now, nreq>>

ConnectTop ==
    /\ role = "client" /\ pc = "top"
    /\ pc' = IF INTERRUPTED THEN "exited" ELSE "poll"
    /\ ev' = Step("top")
    /\ NoOutput
    /\ UNCHANGED <<role, accept, tun_dev, events, INTERRUPTED, available_ids, client_info, session,
                   now, nreq>>

ConnectPoll ==
    /\ role = "client" /\ pc = "poll"
    /\ \E batch \in Batches : events' = batch
    /\ pc' = "events"
    /\ ev' = Step("poll")
    /\ NoOutput
    /\ UNCHANGED <<role, accept, tun_dev, INTERRUPTED, available_ids, client_info, session, now, nreq>>

ConnectData(server_token, data) ==
    /\ sock_out' = <<>>
    /\ IF session.token = server_token
       THEN LET d == decompress_vec(data) IN
            IF ~d.ok
            THEN tun_out' = <<>> /\ Panic          \* decompress_vec(..).unwrap()
            ELSE tun_out' = TunWriteAll(d.data) /\ Continue
       ELSE tun_out' = <<>> /\ Continue            \* warn: token mismatched

ConnectSock ==
    /\ role = "client" /\ pc = "events" /\ Head(events) = SOCK
    /\ \E in \in ConnectInputs :
         LET dgram == in[1]
             addr == in[2]
             r == decode(dgram) IN
         /\ ev' = SockStep(dgram, addr)
         /\ IF ~r.ok
            THEN Panic /\ NoOutput                 \* decode(..).unwrap()
            ELSE IF r.msg.type = "Data"
                 THEN ConnectData(r.msg.token, r.msg.data)
                 ELSE Continue /\ NoOutput         \* warn: invalid message
    /\ UNCHANGED <<role, accept, tun_dev, INTERRUPTED, available_ids, client_info, session, now, nreq>>

\* mutant: the packet is sent as read, without compress_vec
ConnectTunPacketRaw(pkt) ==
    /\ sock_out' = SendAll(encode(Data(session.id, session.token, pkt)), ServerAddr)
    /\ tun_out' = <<>>
    /\ Continue

ConnectTunPacket(pkt) ==
    /\ sock_out' = SendAll(encode(Data(session.id, session.token,
                                       compress_vec(pkt))), ServerAddr)
    /\ tun_out' = <<>>
    /\ Continue

ConnectTun ==
    /\ role = "client" /\ pc = "events" /\ Head(events) = TUN
    /\ \E pkt \in ConnectPackets :
         /\ ev' = TunStep(pkt)
         /\ ConnectTunPacket(pkt)
    /\ UNCHANGED <<role, accept, tun_dev, INTERRUPTED, available_ids, client_info, session, now, nreq>>

-----------------------------------------------------------------------------
(* create_tun_attempt() *)

\* mutant: the recursion gives up one id early (254 => panic!)
attemptGiveUpEarly(id, fail) ==
    IF id >= LastTunId - 1 THEN [pc |-> "panicked", id |-> id]
    ELSE IF id \in fail THEN [pc |-> "create_tun", id |-> (id + 1) % 256]
    ELSE [pc |-> "tun_created", id |-> id]

\* one call of fn attempt(id: u8), the ids in fail being those for which
\* device::Tun::create returns Err: where the process is next, and with which id
attempt(id, fail) ==
    IF id = LastTunId THEN [pc |-> "panicked", id |-> id]     \* 255 => panic!
    ELSE IF id \in fail THEN [pc |-> "create_tun", id |-> (id + 1) % 256]
    ELSE [pc |-> "tun_created", id |-> id]                     \* Ok(tun) => tun

CreateTunAttempt ==
    /\ pc = "create_tun"
    /\ LET r == attempt(tun_dev.id, tun_dev.fail) IN
       /\ pc' = r.pc
       /\ tun_dev' = [tun_dev EXCEPT !.id = r.id]
    /\ ev' = Step("create_tun")
    /\ NoOutput
    /\ UNCHANGED <<role, accept, events, INTERRUPTED, available_ids, client_info,
                   session, now, nreq>>

-----------------------------------------------------------------------------
(* Environment *)

\* the signal handler stores true into INTERRUPTED
Interrupt ==
    /\ Alive /\ ~INTERRUPTED
    /\ INTERRUPTED' = TRUE
    /\ ev' = Step("interrupt")
    /\ NoOutput
    /\ UNCHANGED <<role, accept, tun_dev, pc, events, available_ids, client_info, session, now, nreq>>

\* time passes (while poll blocks, or between two events of a batch)
Tick ==
    /\ role = "server" /\ Alive
    /\ \E d \in TickSteps :
         /\ now + d <= MaxTime
         /\ Cardinality(TransientExpired(client_info, now + d)) <= MaxPrune
         /\ now' = now + d
    /\ ev' = Step("tick")
    /\ NoOutput
    /\ UNCHANGED <<role, accept, tun_dev, pc, events, INTERRUPTED, available_ids, client_info, session,
                   nreq>>

-----------------------------------------------------------------------------

Init ==
    /\ role \in {"server", "client"}
    /\ pc = IF role = "server" THEN "top" ELSE "start"
    /\ events = <<>>
    /\ INTERRUPTED = FALSE
    /\ available_ids = InitAvailableIds
    /\ client_info = << >>
    /\ session = NoSession
    /\ now = 0
    /\ nreq = 0
    /\ accept = BufSize
    /\ tun_dev = TunCreated
    /\ ev = Step("init")
    /\ tun_out = <<>>
    /\ sock_out = <<>>

NextServe == ServeTop \/ ServePoll \/ ServeSock \/ ServeTun

NextConnect ==
    \/ InitiateSend \/ InitiateRecv
    \/ ConnectTop \/ ConnectPoll \/ ConnectSock \/ ConnectTun

Next == NextServe \/ NextConnect \/ Interrupt \/ Tick

Spec == Init /\ [][Next]_vars

\* Spec with a kernel that may take only part of what a call is given
InitPartial ==
    /\ role \in {"server", "client"}
    /\ pc = IF role = "server" THEN "top" ELSE "start"
    /\ events = <<>>
    /\ INTERRUPTED = FALSE
    /\ available_ids = InitAvailableIds
    /\ client_info = << >>
    /\ session = NoSession
    /\ now = 0
    /\ nreq = 0
    /\ accept \in AcceptSizes
    /\ tun_dev = TunCreated
    /\ ev = Step("init")
    /\ tun_out = <<>>
    /\ sock_out = <<>>

SpecPartial == InitPartial /\ [][Next]_vars

\* The server after it has handled, at time 0, one Request from "a1" for every
\* id of the pool but the lowest, drawing token 1 each time: the pops took
\* 253 down to 3 and left <<2>>.
InitNearExhaustion ==
    /\ role = "server"
    /\ pc = "top"
    /\ events = <<>>
    /\ INTERRUPTED = FALSE
    /\ available_ids = <<FirstId>>
    /\ client_info = [k \in (FirstId + 1)..(EndId - 1) |->
                         [token |-> 1, addr |-> "a1", ts |-> 0]]
    /\ session = NoSession
    /\ now = 0
    /\ nreq = 0
    /\ accept = BufSize
    /\ tun_dev = TunCreated
    /\ ev = Step("init")
    /\ tun_out = <<>>
    /\ sock_out = <<>>

SpecNearExhaustion == InitNearExhaustion /\ [][NextServe \/ Interrupt \/ Tick]_vars

-----------------------------------------------------------------------------
(* Properties *)

\* the message the step just taken received, and the one the step being taken receives
Handled == decode(ev.dgram)
Handling == decode(ev'.dgram)
Running == pc \in {"top", "poll", "events"}

\* C1 -- at every loop boundary of serve, the free pool and the key set of the
\* session table are disjoint, the pool holds no id twice, and together they
\* are exactly {2,...,253}.
IdConservation ==
    (role = "server" /\ pc = "top") =>
        /\ SeqToSet(available_ids) \cap DOMAIN client_info = {}
        /\ Cardinality(SeqToSet(available_ids)) = Len(available_ids)
        /\ SeqToSet(available_ids) \cup DOMAIN client_info = 2..253

\* a loop boundary at which 252 is in use and 253 has expired and is back on
\* top of the pool
IdConservationWitness ==
    /\ role = "server" /\ pc = "top" /\ ev.kind \in {"sock", "tun"}
    /\ 252 \in DOMAIN client_info
    /\ available_ids[Len(available_ids)] = 253

\* C2 -- a received Data whose token differs from the expected one (server:
\* the token stored for the message's id; client: the token of the handshake)
\* never results in a TUN write; on the server neither does a Data whose id
\* has no session.
TokenMatchGate ==
    [][(ev'.kind = "sock" /\ Handling.ok /\ Handling.msg.type = "Data") =>
          /\ (role = "server"
                /\ (\/ Handling.msg.id \notin DOMAIN client_info
                    \/ client_info[Handling.msg.id].token # Handling.msg.token))
               => tun_out' = <<>>
          /\ (role = "client" /\ session.token # Handling.msg.token)
               => tun_out' = <<>>]_vars

\* the server has just handled a Data for a live session with another token
TokenMatchGateWitness ==
    /\ role = "server" /\ ev.kind = "sock" /\ Running
    /\ Handled.ok /\ Handled.msg.type = "Data"
    /\ Handled.msg.id \in DOMAIN client_info
    /\ client_info[Handled.msg.id].token # Handled.msg.token
    /\ tun_out = <<>>

\* C3 -- a Request from a handled with a non-empty pool removes the id on top
\* of the pool, inserts id -> (token, a) and sends exactly one Response{id,
\* token} to a; with the initial pool the id is 253.
HandshakeStep ==
    [][(role = "server" /\ ev'.kind = "sock" /\ Handling.ok
          /\ Handling.msg.type = "Request" /\ available_ids # <<>>) =>
          LET id == available_ids[Len(available_ids)] IN
          /\ available_ids' = SubSeq(available_ids, 1, Len(available_ids) - 1)
          /\ DOMAIN client_info' = DOMAIN client_info \cup {id}
          /\ \A k \in DOMAIN client_info \ {id} : client_info'[k] = client_info[k]
          /\ client_info'[id].addr = ev'.from
          /\ Len(sock_out') = 1
          /\ sock_out'[1].to = ev'.from
          /\ decode(sock_out'[1].bytes)
               = DecodeOk(Response(id, client_info'[id].token))
          /\ (available_ids = [i \in 1..252 |-> i + 1]) => id = 253]_vars

\* the first Request has just been answered with id 253
HandshakeStepWitness ==
    /\ role = "server" /\ ev.kind = "sock" /\ Handled.ok
    /\ Handled.msg.type = "Request"
    /\ nreq = 1 /\ 253 \in DOMAIN client_info
    /\ Len(sock_out) = 1 /\ decode(sock_out[1].bytes).msg.id = 253

\* C4 -- every id the server issues in a Response or keeps as a key of the
\* session table is in 2..253: 0, 1, 254 and 255 are never issued.
IssuedIdsInRange ==
    role = "server" =>
        /\ DOMAIN client_info \subseteq 2..253
        /\ \A i \in 1..Len(sock_out) :
              LET m == decode(sock_out[i].bytes) IN
              (m.ok /\ m.msg.type = "Response") => m.msg.id \in 2..253

\* id 253 has expired, come back to the pool and been issued a second time
IssuedIdsInRangeWitness ==
    /\ role = "server" /\ ev.kind = "sock" /\ Handled.ok
    /\ Handled.msg.type = "Request"
    /\ nreq = 2 /\ now >= 60 /\ DOMAIN client_info = {253}
    /\ Len(sock_out) = 1 /\ decode(sock_out[1].bytes).msg.id = 253

\* C5 -- a Request handled while the free pool is empty is dropped: no
\* Response is sent, table and pool are unchanged, and the loop keeps running.
ExhaustionDropsRequest ==
    [][(role = "server" /\ ev'.kind = "sock" /\ Handling.ok
          /\ Handling.msg.type = "Request" /\ available_ids = <<>>) =>
          /\ sock_out' = <<>>
          /\ UNCHANGED <<client_info, available_ids>>
          /\ pc' \in {"top", "events"}]_vars

\* C6 -- a datagram that does not decode, or a Data with the matching token
\* whose payload does not decompress, is dropped in both roles: no TUN write,
\* no change of session state, and the loop continues.
PerPacketErrorIsolation ==
    [][(ev'.kind = "sock"
          /\ \/ ~Handling.ok
             \/ /\ Handling.msg.type = "Data"
                /\ ~decompress_vec(Handling.msg.data).ok
                /\ IF role = "server"
                   THEN /\ Handling.msg.id \in DOMAIN client_info
                        /\ client_info[Handling.msg.id].token = Handling.msg.token
                   ELSE session.token = Handling.msg.token) =>
          /\ tun_out' = <<>>
          /\ UNCHANGED <<client_info, available_ids, session>>
          /\ pc' \in {"top", "events"}]_vars

\* C7 -- an entry inserted at time t is kept by every prune executed before
\* t + 60 and removed by any prune executed at t + 60 or later, whatever was
\* handled for its id in between: insertion stamps the entry with the
\* current time, only a prune removes it, and no other step moves the stamp.
ExpiryByInsertionAge ==
    [][role = "server" =>
          /\ \A k \in DOMAIN client_info' \ DOMAIN client_info :
                client_info'[k].ts = now
          /\ \A k \in DOMAIN client_info :
                IF ev'.kind = "top" /\ ~INTERRUPTED
                THEN /\ now - client_info[k].ts < 60 => k \in DOMAIN client_info'
                     /\ now - client_info[k].ts >= 60 => k \notin DOMAIN client_info'
                     /\ k \in DOMAIN client_info'
                          => client_info'[k].ts = client_info[k].ts
                ELSE /\ k \in DOMAIN client_info'
                     /\ client_info'[k].ts = client_info[k].ts]_vars

\* a prune has just kept the entry of 252, of age 59, and 253 (older) is gone
ExpiryByInsertionAgeWitness ==
    /\ role = "server" /\ ev.kind = "top" /\ pc = "poll"
    /\ 253 \notin DOMAIN client_info
    /\ 252 \in DOMAIN client_info /\ now - client_info[252].ts = 59

\* C8 -- every id a prune removes from the table is appended to the pool,
\* once, in the same loop iteration; the id can then be assigned again.
ExpiryRecycles ==
    [][(role = "server" /\ ev'.kind = "top" /\ ~INTERRUPTED) =>
          LET removed == DOMAIN client_info \ DOMAIN client_info'
              n == Len(available_ids) IN
          /\ Len(available_ids') = n + Cardinality(removed)
          /\ SubSeq(available_ids', 1, n) = available_ids
          /\ {available_ids'[i] : i \in (n + 1)..Len(available_ids')} = removed]_vars

\* 253, inserted at time 0 and pruned at 60 or later, has been assigned again
\* by the next Request, with a newly drawn token
ExpiryRecyclesWitness ==
    /\ role = "server" /\ ev.kind = "sock" /\ Handled.ok
    /\ Handled.msg.type = "Request"
    /\ nreq = 2 /\ 253 \in DOMAIN client_info /\ client_info[253].ts >= 60
    /\ 252 \in SeqToSet(available_ids)

\* C9 -- handling a Data on the server leaves the session table (tokens,
\* peer addresses, insertion times) and the free pool unchanged, in every
\* outcome.
DataLeavesSessions ==
    [][(role = "server" /\ ev'.kind = "sock" /\ Handling.ok
          /\ Handling.msg.type = "Data") =>
          UNCHANGED <<client_info, available_ids>>]_vars

\* a Data with the right token from another address than the stored one has
\* been written to TUN, some time after the insertion
DataLeavesSessionsWitness ==
    /\ role = "server" /\ ev.kind = "sock" /\ Handled.ok
    /\ Handled.msg.type = "Data" /\ tun_out # <<>>
    /\ Handled.msg.id \in DOMAIN client_info
    /\ client_info[Handled.msg.id].addr # ev.from
    /\ client_info[Handled.msg.id].ts < now

\* C10 -- a TUN packet whose byte at offset 19 is d: with an entry
\* d -> (token, addr), exactly one datagram is sent, to addr, and it is
\* Data{d, token, compress(packet)}; without one, nothing is sent and the
\* loop continues.
TunRouting ==
    [][(role = "server" /\ ev'.kind = "tun" /\ Len(ev'.pkt) >= 20) =>
          LET d == ev'.pkt[20] IN
          IF d \in DOMAIN client_info
          THEN /\ Len(sock_out') = 1
               /\ sock_out'[1].to = client_info[d].addr
               /\ decode(sock_out'[1].bytes)
                    = DecodeOk(Data(d, client_info[d].token, compress_vec(ev'.pkt)))
               /\ Len(sock_out'[1].bytes) = 21 + Len(compress_vec(ev'.pkt))
          ELSE sock_out' = <<>> /\ pc' \in {"top", "events"}]_vars

\* a packet for the live session 253 has just been sent to its peer
TunRoutingWitness ==
    /\ role = "server" /\ ev.kind = "tun" /\ Len(ev.pkt) >= 20
    /\ ev.pkt[20] = 253 /\ 253 \in DOMAIN client_info
    /\ Len(sock_out) = 1 /\ sock_out[1].to = client_info[253].addr

\* C11 -- round trip: the datagram the client sends for a packet p decodes to
\* Data{own id, own token, compress(p)}, whose payload decompresses to p, and
\* the server, given a Data of an id it holds with that id's token, writes to
\* its TUN exactly what the payload decompresses to; the same from the
\* server's TUN to the client's.
RoundTrip ==
    [][/\ (role = "client" /\ ev'.kind = "tun") =>
            /\ Len(sock_out') = 1 /\ sock_out'[1].to = ServerAddr
            /\ decode(sock_out'[1].bytes)
                 = DecodeOk(Data(session.id, session.token, compress_vec(ev'.pkt)))
            /\ decompress_vec(decode(sock_out'[1].bytes).msg.data)
                 = [ok |-> TRUE, data |-> ev'.pkt]
       /\ (role = "server" /\ ev'.kind = "sock" /\ Handling.ok
             /\ Handling.msg.type = "Data"
             /\ Handling.msg.id \in DOMAIN client_info
             /\ Handling.msg.token = client_info[Handling.msg.id].token
             /\ decompress_vec(Handling.msg.data).ok) =>
            tun_out' = <<decompress_vec(Handling.msg.data).data>>
       /\ (role = "server" /\ ev'.kind = "tun" /\ Len(ev'.pkt) >= 20
             /\ ev'.pkt[20] \in DOMAIN client_info) =>
            /\ Len(sock_out') = 1
            /\ decode(sock_out'[1].bytes)
                 = DecodeOk(Data(ev'.pkt[20], client_info[ev'.pkt[20]].token,
                                 compress_vec(ev'.pkt)))
            /\ decompress_vec(decode(sock_out'[1].bytes).msg.data)
                 = [ok |-> TRUE, data |-> ev'.pkt]
       /\ (role = "client" /\ ev'.kind = "sock" /\ Handling.ok
             /\ Handling.msg.type = "Data"
             /\ Handling.msg.token = session.token
             /\ decompress_vec(Handling.msg.data).ok) =>
            tun_out' = <<decompress_vec(Handling.msg.data).data>>]_vars

\* the server has written to its TUN the packet a client read from its own
RoundTripWitness ==
    /\ role = "server" /\ ev.kind = "sock"
    /\ \E k \in DOMAIN client_info :
          ev.dgram = encode(Data(k, client_info[k].token, compress_vec(MkPacket(20, 1))))
    /\ tun_out = <<MkPacket(20, 1)>>

\* C12 -- from its insertion until a prune removes it, the token and the peer
\* address stored for an id do not change, and a Request never inserts under
\* a key that is in the table.
TokenImmutable ==
    [][role = "server" =>
          /\ \A k \in DOMAIN client_info :
                IF k \in DOMAIN client_info'
                THEN /\ client_info'[k].token = client_info[k].token
                     /\ client_info'[k].addr = client_info[k].addr
                ELSE ev'.kind = "top"
          /\ (ev'.kind = "sock" /\ Handling.ok /\ Handling.msg.type = "Request"
                /\ available_ids # <<>>)
               => available_ids[Len(available_ids)] \notin DOMAIN client_info]_vars

\* a Request of another peer has been handled while 253 was in the table, and
\* 253 still belongs to the first peer
TokenImmutableWitness ==
    /\ role = "server" /\ ev.kind = "sock" /\ Handled.ok
    /\ Handled.msg.type = "Request"
    /\ DOMAIN client_info = {252, 253}
    /\ client_info[253].addr # ev.from
    /\ client_info[253].token # client_info[252].token

\* C13 -- the client leaves the blocking receive of the handshake with a
\* session only when the datagram comes from the server's address and decodes
\* to Response{id, token}, and then the session is that (id, token); any other
\* datagram is fatal; while blocked it sends nothing; nothing else sets the
\* session or enters the loop.
HandshakeAcceptance ==
    [][role = "client" =>
          /\ (pc = "wait" /\ pc' # "wait") =>
                IF ev'.from = ServerAddr /\ Handling.ok
                     /\ Handling.msg.type = "Response"
                THEN /\ pc' = "top"
                     /\ session' = [id |-> Handling.msg.id,
                                    token |-> Handling.msg.token]
                ELSE pc' = "panicked" /\ session' = NoSession
          /\ (pc = "wait" /\ pc' = "wait") => sock_out' = <<>>
          /\ (pc \in {"start", "panicked", "flooding"}) => pc' \notin {"top", "poll", "events"}
          /\ session' # session => pc = "wait"]_vars

\* a well-formed Response from another address than the server's has ended
\* the client
HandshakeAcceptanceWitness ==
    /\ role = "client" /\ pc = "panicked" /\ ev.kind = "initiate_recv"
    /\ ev.from # ServerAddr
    /\ Handled.ok /\ Handled.msg.type = "Response"

\* C14 -- INTERRUPTED is read at the loop head only: the loop exits there and
\* nowhere else, exactly when the flag is set; after the exit nothing is done;
\* a flag set during an iteration lets the rest of the batch be handled.
InterruptAtBoundary ==
    [][/\ pc # "exited"
       /\ pc' = "exited" => (pc = "top" /\ INTERRUPTED /\ ev'.kind = "top")
       /\ (pc = "top" /\ pc' # "top")
            => pc' = IF INTERRUPTED THEN "exited" ELSE "poll"
       /\ (pc = "poll" /\ pc' # "poll") => (pc' = "events" /\ events' # <<>>)
       /\ (pc = "events" /\ ev'.kind \in {"sock", "tun"})
            => \/ pc' = "panicked"
               \/ /\ events' = Tail(events)
                  /\ pc' = IF events' = <<>> THEN "top" ELSE "events"
       /\ INTERRUPTED => INTERRUPTED']_vars

\* a TUN packet was forwarded although the flag was already set, and the loop
\* is now at its head
InterruptAtBoundaryWitness ==
    /\ INTERRUPTED /\ pc = "top" /\ ev.kind = "tun" /\ sock_out # <<>>

-----------------------------------------------------------------------------
(* create_tun_attempt() on its own: the process at the call, for each set   *)
(* of failing device ids                                                    *)

InitTun ==
    /\ role \in {"server", "client"}
    /\ pc = "create_tun"
    /\ events = <<>>
    /\ INTERRUPTED = FALSE
    /\ available_ids = InitAvailableIds
    /\ client_info = << >>
    /\ session = NoSession
    /\ now = 0
    /\ nreq = 0
    /\ accept = BufSize
    /\ tun_dev \in {[id |-> 0, fail |-> F] : F \in TunFailSets}
    /\ ev = Step("init")
    /\ tun_out = <<>>
    /\ sock_out = <<>>

SpecTun == InitTun /\ [][CreateTunAttempt]_vars

-----------------------------------------------------------------------------

RECURSIVE Concat(_)
\* the bytes of a sequence of pieces, in order
Concat(pieces) == IF pieces = <<>> THEN <<>> ELSE Head(pieces) \o Concat(Tail(pieces))

Sent == [i \in 1..Len(sock_out) |-> sock_out[i].bytes]
Sent_ == [i \in 1..Len(sock_out') |-> sock_out'[i].bytes]

\* b is one complete encoded message and nothing else
CompleteMessage(b) == decode(b).ok /\ encode(decode(b).msg) = b

\* C15 -- a packet from TUN shorter than 20 bytes is rejected by the server:
\* nothing is sent, session state is unchanged and the loop continues.
ShortPacketRejected ==
    [][(role = "server" /\ ev'.kind = "tun" /\ Len(ev'.pkt) < 20) =>
          /\ sock_out' = <<>>
          /\ UNCHANGED <<client_info, available_ids>>
          /\ pc' \in {"top", "events"}]_vars

TunCreationOrder ==
    /\ tun_dev.id \in 0..255
    /\ \A i \in 0..(tun_dev.id - 1) : i \in tun_dev.fail
    /\ pc = "tun_created" => (tun_dev.id \in 0..254 /\ tun_dev.id \notin tun_dev.fail)
    /\ pc = "panicked" => (tun_dev.id = 255 /\ 0..254 \subseteq tun_dev.fail)
    /\ pc = "create_tun" => ENABLED CreateTunAttempt

\* the device of id 254 has been returned after 254 failures
TunCreationOrderWitness ==
    /\ pc = "tun_created" /\ tun_dev.id = 254 /\ tun_dev.fail = 0..253

\* C19 (as stated) -- a record 60 s or more past its insertion is never used:
\* Data and TUN packets handled then are misses, and no Request is handled
\* while such a record is in the table.
NoStaleUse ==
    [][role = "server" =>
          /\ (ev'.kind = "sock" /\ Handling.ok /\ Handling.msg.type = "Data"
                /\ Handling.msg.id \in DOMAIN client_info
                /\ now - client_info[Handling.msg.id].ts >= 60)
               => tun_out' = <<>>
          /\ (ev'.kind = "tun" /\ Len(ev'.pkt) >= 20
                /\ ev'.pkt[20] \in DOMAIN client_info
                /\ now - client_info[ev'.pkt[20]].ts >= 60)
               => sock_out' = <<>>
          /\ (ev'.kind = "sock" /\ Handling.ok /\ Handling.msg.type = "Request")
               => \A k \in DOMAIN client_info : now - client_info[k].ts < 60]_vars

\* C19 (amended) -- a record 60 s or more past its insertion is removed, and
\* its id put back in the pool, by the next loop-head prune; once removed,
\* Data and TUN packets for the id are misses.  Until that prune the record
\* is used whatever its age: a Data with its token is written to TUN and a
\* TUN packet for its id is sent to its peer.
StaleUntilPruned ==
    [][role = "server" =>
          /\ (ev'.kind = "top" /\ ~INTERRUPTED) =>
                \A k \in DOMAIN client_info :
                   now - client_info[k].ts >= 60
                     => (k \notin DOMAIN client_info' /\ k \in SeqToSet(available_ids'))
          /\ (ev'.kind = "sock" /\ Handling.ok /\ Handling.msg.type = "Data") =>
                IF Handling.msg.id \notin DOMAIN client_info
                THEN tun_out' = <<>>
                ELSE (/\ client_info[Handling.msg.id].token = Handling.msg.token
                      /\ decompress_vec(Handling.msg.data).ok)
                       => tun_out' = <<decompress_vec(Handling.msg.data).data>>
          /\ (ev'.kind = "tun" /\ Len(ev'.pkt) >= 20) =>
                IF ev'.pkt[20] \notin DOMAIN client_info
                THEN sock_out' = <<>>
                ELSE /\ Len(sock_out') = 1
                     /\ sock_out'[1].to = client_info[ev'.pkt[20]].addr]_vars

\* a Data for 253 has been written to TUN 60 s or more after 253 was inserted
StaleUntilPrunedWitness ==
    /\ role = "server" /\ ev.kind = "sock" /\ tun_out # <<>>
    /\ Handled.msg.id \in DOMAIN client_info
    /\ now - client_info[Handled.msg.id].ts >= 60

\* C20 -- in each of the five send and write paths, when a call takes only
\* part of the bytes the handler repeats it on the rest, so that all the
\* bytes of the message have been taken when the handler returns.
FullDrain ==
    [][/\ (role = "client" /\ ev'.kind = "tun") =>
            Concat(Sent_) = encode(Data(session.id, session.token,
                                        compress_vec(ev'.pkt)))
       /\ (role = "client" /\ ev'.kind = "sock" /\ Handling.ok
             /\ Handling.msg.type = "Data" /\ Handling.msg.token = session.token
             /\ decompress_vec(Handling.msg.data).ok) =>
            Concat(tun_out') = decompress_vec(Handling.msg.data).data
       /\ (role = "server" /\ ev'.kind = "sock" /\ Handling.ok
             /\ Handling.msg.type = "Request" /\ available_ids # <<>>) =>
            LET id == available_ids[Len(available_ids)] IN
            Concat(Sent_) = encode(Response(id, client_info'[id].token))
       /\ (role = "server" /\ ev'.kind = "sock" /\ Handling.ok
             /\ Handling.msg.type = "Data"
             /\ Handling.msg.id \in DOMAIN client_info
             /\ client_info[Handling.msg.id].token = Handling.msg.token
             /\ decompress_vec(Handling.msg.data).ok) =>
            Concat(tun_out') = decompress_vec(Handling.msg.data).data
       /\ (role = "server" /\ ev'.kind = "tun" /\ Len(ev'.pkt) >= 20
             /\ ev'.pkt[20] \in DOMAIN client_info) =>
            Concat(Sent_) = encode(Data(ev'.pkt[20], client_info[ev'.pkt[20]].token,
                                        compress_vec(ev'.pkt)))]_vars

====
